---- MODULE Spec2Model ----
(***************************************************************************)
(* Model of the Ursalink payload decoders: AM100.js (ambience),            *)
(* EM500-SMT.js (soil) and the EM500-LGT decoder (light).  One call        *)
(* Decoder(bytes, port) is a small state machine: the port test, the loop  *)
(* head (header read), the channel dispatch, and the return.               *)
(*                                                                         *)
(* JavaScript values are records: numbers are exact rationals n/d (the     *)
(* code only divides small integers by 2, 10 and 100), and undefined and   *)
(* NaN are values of their own, because the decoders read past the end of  *)
(* the array and compute with what they get.                               *)
(***************************************************************************)
EXTENDS Integers, Sequences, FiniteSets, TLC

VARIABLES profile, bytes, port, pc, i, channel_id, channel_type, decoded,
          result, pastEnd, iterations, msg

vars == <<profile, bytes, port, pc, i, channel_id, channel_type, decoded,
          result, pastEnd, iterations, msg>>

(***************************************************************************)
(* JavaScript values                                                       *)
(***************************************************************************)
Undefined == [t |-> "undefined", n |-> 0, d |-> 1]
NaN == [t |-> "NaN", n |-> 0, d |-> 1]
Null == [t |-> "null", n |-> 0, d |-> 1]
Num(k) == [t |-> "number", n |-> k, d |-> 1]
Rat(k, m) == [t |-> "number", n |-> k, d |-> m]
Bool(b) == [t |-> "boolean", b |-> b]
Str(s) == [t |-> "string", s |-> s]
Obj(o) == [t |-> "object", o |-> o]

IsNum(v) == v.t = "number"

\* a === b on primitives (NaN equals nothing)
StrictEq(a, b) == a.t # "NaN" /\ a = b

\* ToInt32 of the values the decoders feed to <<, >> and &: undefined and NaN
\* become 0; the numbers here are integers below 2^31.
ToInt32(v) == IF IsNum(v) THEN v.n \div v.d ELSE 0

\* a + b on numbers; undefined or NaN on either side gives NaN
Add(a, b) ==
    IF IsNum(a) /\ IsNum(b) THEN Rat(a.n * b.d + b.n * a.d, a.d * b.d) ELSE NaN

\* a - b
Sub(a, b) ==
    IF IsNum(a) /\ IsNum(b) THEN Rat(a.n * b.d - b.n * a.d, a.d * b.d) ELSE NaN

\* a / k for a positive integer literal k (floating-point division, kept exact)
Div(a, k) == IF IsNum(a) THEN Rat(a.n, a.d * k) ELSE NaN

\* a > b: false when either side is undefined or NaN
Gt(a, b) == IsNum(a) /\ IsNum(b) /\ a.n * b.d > b.n * a.d

\* a << k
Shl(a, k) == Num(ToInt32(a) * (2 ^ k))

\* a >> k (non-negative operands only)
Shr(a, k) == Num(ToInt32(a) \div (2 ^ k))

RECURSIVE BitAndNat(_, _)
BitAndNat(a, b) ==
    IF a = 0 \/ b = 0 THEN 0
    ELSE (IF a % 2 = 1 /\ b % 2 = 1 THEN 1 ELSE 0) + 2 * BitAndNat(a \div 2, b \div 2)

\* a & mask (non-negative operands only)
BitAnd(a, mask) == Num(BitAndNat(ToInt32(a), mask))

\* bytes[k], k counted from 0: undefined outside the array
At(arr, k) == IF k >= 0 /\ k < Len(arr) THEN Num(arr[k + 1]) ELSE Undefined

\* bytes.slice(a, b): clamps to the array, never reads outside it
slice(arr, a, b) == SubSeq(arr, a + 1, IF b < Len(arr) THEN b ELSE Len(arr))

\* decoded.k = v
Put(obj, k, v) == [f \in (DOMAIN obj) \cup {k} |-> IF f = k THEN v ELSE obj[f]]

Has(obj, k) == k \in DOMAIN obj

EmptyObject == <<>>

(***************************************************************************)
(* bytes to number (AM100.js 143-188; EM500-SMT.js and the light decoder   *)
(* carry their own copies of readUInt16LE and readInt16LE, identical text) *)
(***************************************************************************)
Ge(a, b) == IsNum(a) /\ IsNum(b) /\ a.n * b.d >= b.n * a.d

Mul(k, a) == IF IsNum(a) THEN Rat(k * a.n, a.d) ELSE NaN

readUInt16LE(arr) ==
    LET value == Add(Shl(At(arr, 1), 8), At(arr, 0))
    IN  BitAnd(value, 65535)

\* a reader that forgets the sign (the embedded copy in AM100-node-red.js
\* reads four channels this way)
readInt16LE_Unsigned(arr) == readUInt16LE(arr)

readInt16LE(arr) ==
    LET ref == readUInt16LE(arr)
    IN  IF Gt(ref, Num(32767)) THEN Sub(ref, Num(65536)) ELSE ref

\* a reader with the two bytes in the other order
readUInt16BE_Swapped(arr) ==
    LET value == Add(Shl(At(arr, 1), 8), At(arr, 0))
    IN  value

readUInt16BE(arr) ==
    LET value == Add(Shl(At(arr, 0), 8), At(arr, 1))
    IN  value

bcd2ToDecimal(value) ==
    LET res == BitAnd(value, 15)
    IN  IF Gt(res, Num(9)) \/ Ge(value, Num(160))
        THEN Num(0)
        ELSE Add(res, Mul(10, Shr(value, 4)))

bcd22ToVersion(value) ==
    LET res == Add(bcd2ToDecimal(Shr(value, 8)),
                   Div(bcd2ToDecimal(BitAnd(value, 255)), 100))
    IN  res

readVersion(arr) == bcd22ToVersion(readUInt16BE(arr))

HexDigits ==
    <<"0", "1", "2", "3", "4", "5", "6", "7", "8", "9", "a", "b", "c", "d", "e", "f">>

\* byte.toString(16), as a sequence of characters
RECURSIVE toString16(_)
toString16(k) ==
    IF k < 16 THEN <<HexDigits[k + 1]>>
    ELSE toString16(k \div 16) \o <<HexDigits[(k % 16) + 1]>>

\* ("0" + byte.toString(16)).substr(-2)
encodeHex(byte) ==
    LET s == <<"0">> \o toString16(byte)
    IN  SubSeq(s, Len(s) - 1, Len(s))

\* the loop of readHexBytes: result = result + "-" + encodeHex(bytes[i])
RECURSIVE readHexLoop(_, _, _)
readHexLoop(arr, k, res) ==
    IF k < Len(arr)
    THEN readHexLoop(arr, k + 1, res \o <<"-">> \o encodeHex(arr[k + 1]))
    ELSE res

\* result.substr(1)
readHexBytes(arr) ==
    LET res == readHexLoop(arr, 0, <<>>)
    IN  Str(SubSeq(res, 2, Len(res)))

(***************************************************************************)
(* The functions each file defines.  A call of a name the file does not    *)
(* define throws a ReferenceError out of Decoder.                          *)
(***************************************************************************)
Profiles == {"AM100", "EM500_SMT", "EM500_LGT"}

Functions(p) ==
    IF p = "AM100"
    THEN {"Decoder", "readUInt16LE", "readInt16LE", "readUInt16BE", "bcd2ToDecimal",
          "bcd22ToVersion", "readVersion", "encodeHex", "readHexBytes"}
    ELSE IF p = "AM100_NR"
    THEN {"dewpoint", "CalculateHeatIndex", "CalculateHeatIndexCelsius",
          "Decoder", "readUInt16LE", "readInt16LE", "readUInt16BE", "bcd2ToDecimal",
          "bcd22ToVersion", "readVersion", "encodeHex", "readHexBytes"}
    ELSE IF p = "EM500_SMT_NR"
    THEN {"dewpoint", "Decoder", "readUInt16LE", "readInt16LE"}
    ELSE {"Decoder", "readUInt16LE", "readInt16LE"}

\* what one pass through the if/else chain of the loop body leaves behind
Out(k, dec, brk, thrown, past) ==
    [i |-> k, decoded |-> dec, brk |-> brk, thrown |-> thrown, past |-> past]

Is(id, ty, a, b) == StrictEq(id, Num(a)) /\ StrictEq(ty, Num(b))

EnabledSensorsOf(es) ==
    Obj([temperature  |-> ~StrictEq(BitAnd(es, 1), Num(0)),
         humidity     |-> ~StrictEq(BitAnd(es, 2), Num(0)),
         activity     |-> ~StrictEq(BitAnd(es, 4), Num(0)),
         illumination |-> ~StrictEq(BitAnd(es, 8), Num(0)),
         co2          |-> ~StrictEq(BitAnd(es, 16), Num(0)),
         tvoc         |-> ~StrictEq(BitAnd(es, 32), Num(0)),
         pressure     |-> ~StrictEq(BitAnd(es, 64), Num(0))])

\* AM100.js 44-50: decoded.battery = bytes[i]; clamp above 100
BatteryAM100(arr, k) ==
    LET b == At(arr, k)
    IN  IF Gt(b, Num(100)) THEN Num(100) ELSE b

(***************************************************************************)
(* AM100.js 44-138: the body of the loop after the header read.            *)
(* 0x75=117 0x67=103 0x68=104 0x6A=106 0x65=101 0x7D=125 0x73=115 0xFF=255 *)
(***************************************************************************)
BodyAM100(arr, k, id, ty, dec) ==
    IF Is(id, ty, 1, 117)
    THEN Out(k + 1, Put(dec, "battery", BatteryAM100(arr, k)), FALSE, FALSE, k >= Len(arr))
    ELSE IF Is(id, ty, 3, 103)
    THEN Out(k + 2, Put(dec, "temperature", Div(readInt16LE(slice(arr, k, k + 2)), 10)),
             FALSE, FALSE, k + 2 > Len(arr))
    ELSE IF Is(id, ty, 4, 104)
    THEN Out(k + 1, Put(dec, "humidity", Div(At(arr, k), 2)), FALSE, FALSE, k >= Len(arr))
    ELSE IF Is(id, ty, 5, 106)
    THEN Out(k + 2, Put(dec, "activity", readInt16LE(slice(arr, k, k + 2))),
             FALSE, FALSE, k + 2 > Len(arr))
    ELSE IF Is(id, ty, 6, 101)
    THEN Out(k + 6, Put(dec, "illumination", readInt16LE(slice(arr, k, k + 2))),
             FALSE, FALSE, k + 2 > Len(arr))
    ELSE IF Is(id, ty, 7, 125)
    THEN Out(k + 2, Put(dec, "co2", readInt16LE(slice(arr, k, k + 2))),
             FALSE, FALSE, k + 2 > Len(arr))
    ELSE IF Is(id, ty, 8, 125)
    THEN Out(k + 2, Put(dec, "tvoc", readInt16LE(slice(arr, k, k + 2))),
             FALSE, FALSE, k + 2 > Len(arr))
    ELSE IF Is(id, ty, 9, 115)
    THEN Out(k + 2, Put(dec, "pressure", Div(readInt16LE(slice(arr, k, k + 2)), 10)),
             FALSE, FALSE, k + 2 > Len(arr))
    ELSE IF StrictEq(id, Num(255))
    THEN IF StrictEq(ty, Num(11))
         THEN Out(k + 1, Put(dec, "restart", Num(1)), FALSE, FALSE, FALSE)
         ELSE IF StrictEq(ty, Num(1))
         THEN Out(k + 1, Put(dec, "FormatVersion", At(arr, k)), FALSE, FALSE, k >= Len(arr))
         ELSE IF StrictEq(ty, Num(8))
         THEN Out(k + 6, Put(dec, "SerialNumber", readHexBytes(slice(arr, k, k + 6))),
                  FALSE, FALSE, k + 6 > Len(arr))
         ELSE IF StrictEq(ty, Num(9))
         THEN Out(k + 2, Put(dec, "HardwareVersion", readVersion(slice(arr, k, k + 2))),
                  FALSE, FALSE, k + 2 > Len(arr))
         ELSE IF StrictEq(ty, Num(10))
         THEN Out(k + 2, Put(dec, "SoftwareVersion", readVersion(slice(arr, k, k + 2))),
                  FALSE, FALSE, k + 2 > Len(arr))
         ELSE IF StrictEq(ty, Num(15))
         THEN Out(k + 1, Put(dec, "Class", At(arr, k)), FALSE, FALSE, k >= Len(arr))
         ELSE IF StrictEq(ty, Num(24))
         THEN Out(k + 2,
                  Put(dec, "EnabledSensors",
                      EnabledSensorsOf(readUInt16BE(slice(arr, k, k + 2)))),
                  FALSE, FALSE, k + 2 > Len(arr))
         ELSE Out(k, Put(dec, "Error", Bool(TRUE)), TRUE, FALSE, FALSE)
    ELSE Out(k, Put(dec, "error", Bool(TRUE)), TRUE, FALSE, FALSE)

(***************************************************************************)
(* AM100-node-red.js 171-265: the loop body of the Decoder embedded after  *)
(* "begin AM100.js".  Activity, illumination, tvoc and pressure are read   *)
(* with readUInt16LE there (190, 195, 207, 212).  The helpers at 273-315   *)
(* are the text of AM100.js 146-188.                                       *)
(***************************************************************************)
\* an embedded copy that also reads co2 unsigned
BodyAM100NR_Co2Unsigned(arr, k, id, ty, dec) ==
    IF Is(id, ty, 7, 125)
    THEN Out(k + 2, Put(dec, "co2", readUInt16LE(slice(arr, k, k + 2))),
             FALSE, FALSE, k + 2 > Len(arr))
    ELSE BodyAM100(arr, k, id, ty, dec)

BodyAM100NR(arr, k, id, ty, dec) ==
    IF Is(id, ty, 1, 117)
    THEN Out(k + 1, Put(dec, "battery", BatteryAM100(arr, k)), FALSE, FALSE, k >= Len(arr))
    ELSE IF Is(id, ty, 3, 103)
    THEN Out(k + 2, Put(dec, "temperature", Div(readInt16LE(slice(arr, k, k + 2)), 10)),
             FALSE, FALSE, k + 2 > Len(arr))
    ELSE IF Is(id, ty, 4, 104)
    THEN Out(k + 1, Put(dec, "humidity", Div(At(arr, k), 2)), FALSE, FALSE, k >= Len(arr))
    ELSE IF Is(id, ty, 5, 106)
    THEN Out(k + 2, Put(dec, "activity", readUInt16LE(slice(arr, k, k + 2))),
             FALSE, FALSE, k + 2 > Len(arr))
    ELSE IF Is(id, ty, 6, 101)
    THEN Out(k + 6, Put(dec, "illumination", readUInt16LE(slice(arr, k, k + 2))),
             FALSE, FALSE, k + 2 > Len(arr))
    ELSE IF Is(id, ty, 7, 125)
    THEN Out(k + 2, Put(dec, "co2", readInt16LE(slice(arr, k, k + 2))),
             FALSE, FALSE, k + 2 > Len(arr))
    ELSE IF Is(id, ty, 8, 125)
    THEN Out(k + 2, Put(dec, "tvoc", readUInt16LE(slice(arr, k, k + 2))),
             FALSE, FALSE, k + 2 > Len(arr))
    ELSE IF Is(id, ty, 9, 115)
    THEN Out(k + 2, Put(dec, "pressure", Div(readUInt16LE(slice(arr, k, k + 2)), 10)),
             FALSE, FALSE, k + 2 > Len(arr))
    ELSE IF StrictEq(id, Num(255))
    THEN IF StrictEq(ty, Num(11))
         THEN Out(k + 1, Put(dec, "restart", Num(1)), FALSE, FALSE, FALSE)
         ELSE IF StrictEq(ty, Num(1))
         THEN Out(k + 1, Put(dec, "FormatVersion", At(arr, k)), FALSE, FALSE, k >= Len(arr))
         ELSE IF StrictEq(ty, Num(8))
         THEN Out(k + 6, Put(dec, "SerialNumber", readHexBytes(slice(arr, k, k + 6))),
                  FALSE, FALSE, k + 6 > Len(arr))
         ELSE IF StrictEq(ty, Num(9))
         THEN Out(k + 2, Put(dec, "HardwareVersion", readVersion(slice(arr, k, k + 2))),
                  FALSE, FALSE, k + 2 > Len(arr))
         ELSE IF StrictEq(ty, Num(10))
         THEN Out(k + 2, Put(dec, "SoftwareVersion", readVersion(slice(arr, k, k + 2))),
                  FALSE, FALSE, k + 2 > Len(arr))
         ELSE IF StrictEq(ty, Num(15))
         THEN Out(k + 1, Put(dec, "Class", At(arr, k)), FALSE, FALSE, k >= Len(arr))
         ELSE IF StrictEq(ty, Num(24))
         THEN Out(k + 2,
                  Put(dec, "EnabledSensors",
                      EnabledSensorsOf(readUInt16BE(slice(arr, k, k + 2)))),
                  FALSE, FALSE, k + 2 > Len(arr))
         ELSE Out(k, Put(dec, "Error", Bool(TRUE)), TRUE, FALSE, FALSE)
    ELSE Out(k, Put(dec, "error", Bool(TRUE)), TRUE, FALSE, FALSE)

(***************************************************************************)
(* EM500-SMT.js 67-103: the system branch.  Three separate if-chains run   *)
(* one after the other: {0x01, 0x09, 0x0A}, then {0x0B}, then              *)
(* {0x0C, 0x0F, 0x16, else Error}.  0x16=22                                *)
(***************************************************************************)
SystemSMT(arr, k, ty, dec) ==
    LET c1 == IF StrictEq(ty, Num(1))
              THEN Out(k + 1, Put(dec, "FormatVersion", At(arr, k)), FALSE, FALSE,
                       k >= Len(arr))
              ELSE IF StrictEq(ty, Num(9))
              THEN IF "readVersion" \in Functions("EM500_SMT")
                   THEN Out(k + 2,
                            Put(dec, "HardwareVersion", readVersion(slice(arr, k, k + 2))),
                            FALSE, FALSE, k + 2 > Len(arr))
                   ELSE Out(k, dec, FALSE, TRUE, FALSE)
              ELSE IF StrictEq(ty, Num(10))
              THEN IF "readVersion" \in Functions("EM500_SMT")
                   THEN Out(k + 2,
                            Put(dec, "SoftwareVersion", readVersion(slice(arr, k, k + 2))),
                            FALSE, FALSE, k + 2 > Len(arr))
                   ELSE Out(k, dec, FALSE, TRUE, FALSE)
              ELSE Out(k, dec, FALSE, FALSE, FALSE)
        c2 == IF StrictEq(ty, Num(11))
              THEN Out(c1.i + 1, Put(c1.decoded, "restart", Num(1)), FALSE, FALSE, c1.past)
              ELSE c1
        c3 == IF StrictEq(ty, Num(12))
              THEN Out(c2.i + 1, Put(c2.decoded, "shutdown", Num(1)), FALSE, FALSE, c2.past)
              ELSE IF StrictEq(ty, Num(15))
              THEN Out(c2.i + 1, Put(c2.decoded, "Class", At(arr, c2.i)), FALSE, FALSE,
                       c2.past \/ c2.i >= Len(arr))
              ELSE IF StrictEq(ty, Num(22))
              THEN IF "readHexBytes" \in Functions("EM500_SMT")
                   THEN Out(c2.i + 6,
                            Put(c2.decoded, "SerialNumber",
                                readHexBytes(slice(arr, c2.i, c2.i + 6))),
                            FALSE, FALSE, c2.past \/ c2.i + 6 > Len(arr))
                   ELSE Out(c2.i, c2.decoded, FALSE, TRUE, c2.past)
              ELSE Out(c2.i, Put(c2.decoded, "Error", Bool(TRUE)), TRUE, FALSE, c2.past)
    IN  IF c1.thrown THEN c1 ELSE c3

(***************************************************************************)
(* EM500-SMT.js 46-107: the body of the loop after the header read.        *)
(* 0x7f=127                                                                *)
(***************************************************************************)
BodySMT(arr, k, id, ty, dec) ==
    IF Is(id, ty, 1, 117)
    THEN Out(k + 1, Put(dec, "battery", At(arr, k)), FALSE, FALSE, k >= Len(arr))
    ELSE IF Is(id, ty, 3, 103)
    THEN Out(k + 2, Put(dec, "temperature", Div(readInt16LE(slice(arr, k, k + 2)), 10)),
             FALSE, FALSE, k + 2 > Len(arr))
    ELSE IF Is(id, ty, 4, 104)
    THEN Out(k + 1, Put(dec, "humidity", Div(At(arr, k), 2)), FALSE, FALSE, k >= Len(arr))
    ELSE IF Is(id, ty, 5, 127)
    THEN Out(k + 2, Put(dec, "conductivity", readInt16LE(slice(arr, k, k + 2))),
             FALSE, FALSE, k + 2 > Len(arr))
    ELSE IF StrictEq(id, Num(255))
    THEN SystemSMT(arr, k, ty, dec)
    ELSE Out(k, Put(dec, "error", Bool(TRUE)), TRUE, FALSE, FALSE)

(***************************************************************************)
(* EM500-LGT decoder 16-27: the body of the loop.  The light channel       *)
(* slices 4 bytes and hands them to the 16-bit reader.  0x94=148           *)
(***************************************************************************)
BodyLGT(arr, k, id, ty, dec) ==
    IF Is(id, ty, 1, 117)
    THEN Out(k + 1, Put(dec, "battery", At(arr, k)), FALSE, FALSE, k >= Len(arr))
    ELSE IF Is(id, ty, 3, 148)
    THEN Out(k + 4, Put(dec, "light", readInt16LE(slice(arr, k, k + 4))),
             FALSE, FALSE, k + 4 > Len(arr))
    ELSE Out(k, dec, TRUE, FALSE, FALSE)

\* the soil Decoder embedded in the Node-RED file (AM100-node-red.js 430-513)
\* is the text of EM500-SMT.js 27-110
Body(p, arr, k, id, ty, dec) ==
    IF p = "AM100" THEN BodyAM100(arr, k, id, ty, dec)
    ELSE IF p = "AM100_NR" THEN BodyAM100NR(arr, k, id, ty, dec)
    ELSE IF p \in {"EM500_SMT", "EM500_SMT_NR"} THEN BodySMT(arr, k, id, ty, dec)
    ELSE BodyLGT(arr, k, id, ty, dec)

\* AM100.js 36, EM500-SMT.js 31: accept either no port at all, or port 85.
\* The light decoder takes the port and never looks at it.
PortAccepted(p, prt) ==
    IF p = "EM500_LGT" THEN TRUE
    ELSE StrictEq(prt, Undefined) \/ StrictEq(prt, Num(85))

\* AM100.js 40, EM500-SMT.js 35: decoded.Error = false (the light decoder has none)
InitialDecoded(p) ==
    IF p = "EM500_LGT" THEN EmptyObject ELSE Put(EmptyObject, "Error", Bool(FALSE))

\* EM500-SMT.js 38: if (i > bytes.length - 2); the other two have no such test
HeaderCheck(p, arr, k) ==
    IF p \in {"EM500_SMT", "EM500_SMT_NR"} THEN k > Len(arr) - 2 ELSE FALSE

(***************************************************************************)
(* Inputs.  A payload is a sequence of channel records, each the 2-byte    *)
(* header followed by the number of data bytes the channel tables declare  *)
(* (AM100.js 21-29, EM500-SMT.js 21-24, light decoder 6-7; for the system  *)
(* channels, the number the branch consumes), possibly cut short.          *)
(***************************************************************************)
MaxRecords == 2
MaxCut == 2

SensorHeaders(p) ==
    IF p = "AM100"
    THEN {<<1, 117>>, <<3, 103>>, <<4, 104>>, <<5, 106>>, <<6, 101>>, <<7, 125>>,
          <<8, 125>>, <<9, 115>>}
    ELSE IF p = "EM500_SMT"
    THEN {<<1, 117>>, <<3, 103>>, <<4, 104>>, <<5, 127>>}
    ELSE {<<1, 117>>, <<3, 148>>}

SystemHeaders(p) ==
    IF p = "AM100"
    THEN {<<255, 11>>, <<255, 1>>, <<255, 8>>, <<255, 9>>, <<255, 10>>, <<255, 15>>,
          <<255, 24>>}
    ELSE IF p = "EM500_SMT"
    THEN {<<255, 1>>, <<255, 9>>, <<255, 10>>, <<255, 11>>, <<255, 12>>, <<255, 15>>,
          <<255, 22>>}
    ELSE {}

KnownHeaders(p) == SensorHeaders(p) \cup SystemHeaders(p)

\* pairs in no table (0x99=153), and one pair of a sibling profile
UnknownHeaders(p) ==
    {<<2, 153>>, <<255, 153>>} \cup (IF p = "AM100" THEN {<<5, 127>>} ELSE {<<5, 106>>})

HeadersOf(p) == KnownHeaders(p) \cup UnknownHeaders(p)

DeclaredWidth(h) ==
    IF h \in {<<1, 117>>, <<4, 104>>, <<255, 11>>, <<255, 12>>, <<255, 1>>, <<255, 15>>}
    THEN 1
    ELSE IF h \in {<<3, 103>>, <<5, 106>>, <<5, 127>>, <<7, 125>>, <<8, 125>>, <<9, 115>>,
                   <<255, 9>>, <<255, 10>>, <<255, 24>>}
    THEN 2
    ELSE IF h = <<3, 148>> THEN 4
    ELSE IF h \in {<<6, 101>>, <<255, 8>>, <<255, 22>>} THEN 6
    ELSE 0

\* data bytes of the scenarios: 0x64, 0xE6 0x00, 0xAA..0xFF, 0x02 0x01, and
\* battery 200 / 50 with an invalid and a negative second byte
DataPatterns ==
    {<<100, 0, 0, 0, 0, 0>>, <<230, 0, 1, 2, 3, 4>>, <<170, 187, 204, 221, 238, 255>>,
     <<2, 1, 0, 128, 0, 9>>, <<200, 31, 7, 7, 7, 7>>, <<50, 128, 255, 255, 0, 1>>}

\* the records that may follow the first one: battery, the profile's first
\* 2- or 4-byte channel, a system channel, and a pair in no table
FollowHeaders(p) ==
    {<<1, 117>>, IF p = "EM500_LGT" THEN <<3, 148>> ELSE <<3, 103>>, <<255, 15>>,
     <<2, 153>>}

\* no record, or any record of the profile followed by up to k - 1 more
RECURSIVE HeaderSeqs(_, _)
HeaderSeqs(p, k) ==
    IF k = 0 THEN {<<>>}
    ELSE IF k = 1 THEN {<<>>} \cup {<<h>> : h \in HeadersOf(p)}
    ELSE LET S == HeaderSeqs(p, k - 1)
         IN  S \cup {Append(hs, h) : hs \in S \ {<<>>}, h \in FollowHeaders(p)}

RECURSIVE Encode(_, _)
Encode(hs, pat) ==
    IF hs = <<>> THEN <<>>
    ELSE <<Head(hs)[1], Head(hs)[2]>> \o SubSeq(pat, 1, DeclaredWidth(Head(hs)))
         \o Encode(Tail(hs), pat)

Cut(arr, c) == SubSeq(arr, 1, Len(arr) - c)

Payloads(p) ==
    {Cut(Encode(hs, pat), c) :
        hs \in HeaderSeqs(p, MaxRecords), pat \in DataPatterns, c \in 0..MaxCut}

Ports == {Undefined, Num(85), Num(84)}

Start(p, arr, prt) ==
    /\ profile = p
    /\ bytes = arr
    /\ port = prt
    /\ pc = "call"
    /\ i = 0
    /\ channel_id = Undefined
    /\ channel_type = Undefined
    /\ decoded = EmptyObject
    /\ result = Undefined
    /\ pastEnd = FALSE
    /\ iterations = 0
    /\ msg = Undefined

Init == \E p \in Profiles : \E arr \in Payloads(p) : \E prt \in Ports : Start(p, arr, prt)

(***************************************************************************)
(* Decoder(bytes, port), step by step                                      *)
(***************************************************************************)
\* var decoded = {}; the port test; decoded.Error = false; i = 0
Call ==
    /\ pc = "call"
    /\ IF PortAccepted(profile, port)
       THEN /\ decoded' = InitialDecoded(profile)
            /\ pc' = "loop"
            /\ result' = result
       ELSE /\ result' = Null
            /\ pc' = "done"
            /\ decoded' = decoded
    /\ i' = 0
    /\ UNCHANGED <<profile, bytes, port, channel_id, channel_type, pastEnd, iterations, msg>>

\* a header read that advances the cursor once for the two bytes
AfterHeader_Once(k) == k + 1

\* the cursor after channel_id = bytes[i++]; channel_type = bytes[i++]
AfterHeader(k) == k + 2

\* the loop test, the soil decoder's "be robust" test, and the header read;
\* iterations counts the passes that found i < bytes.length
LoopHead ==
    /\ pc = "loop"
    /\ IF i < Len(bytes)
       THEN /\ iterations' = iterations + 1
            /\ IF HeaderCheck(profile, bytes, i)
               THEN /\ decoded' = Put(decoded, "Error", Bool(TRUE))
                    /\ pc' = "return"
                    /\ UNCHANGED <<i, channel_id, channel_type, pastEnd>>
               ELSE /\ channel_id' = At(bytes, i)
                    /\ channel_type' = At(bytes, i + 1)
                    /\ i' = AfterHeader(i)
                    /\ pastEnd' = (pastEnd \/ i + 1 >= Len(bytes))
                    /\ pc' = "body"
                    /\ decoded' = decoded
       ELSE /\ pc' = "return"
            /\ UNCHANGED <<i, channel_id, channel_type, decoded, pastEnd, iterations>>
    /\ UNCHANGED <<profile, bytes, port, result, msg>>

\* the if/else chain on (channel_id, channel_type)
Dispatch ==
    /\ pc = "body"
    /\ \E o \in {Body(profile, bytes, i, channel_id, channel_type, decoded)} :
           /\ i' = o.i
           /\ decoded' = o.decoded
           /\ pastEnd' = (pastEnd \/ o.past)
           /\ pc' = IF o.thrown THEN "thrown" ELSE IF o.brk THEN "return" ELSE "loop"
    /\ UNCHANGED <<profile, bytes, port, channel_id, channel_type, result, iterations, msg>>

\* return decoded
Return ==
    /\ pc = "return"
    /\ result' = Obj(decoded)
    /\ pc' = "done"
    /\ UNCHANGED <<profile, bytes, port, i, channel_id, channel_type, decoded, pastEnd,
                   iterations, msg>>

Next == Call \/ LoopHead \/ Dispatch \/ Return

Spec == Init /\ [][Next]_vars

(***************************************************************************)
(* Decoder(bytes, port) as a function of its arguments: what the steps     *)
(* above leave in result, or ReferenceError when the call is left by the   *)
(* exception.                                                              *)
(***************************************************************************)
ReferenceError == [t |-> "ReferenceError", n |-> 0, d |-> 1]

RECURSIVE DecoderLoop(_, _, _, _)
DecoderLoop(p, arr, k, dec) ==
    IF k < Len(arr)
    THEN IF HeaderCheck(p, arr, k)
         THEN Obj(Put(dec, "Error", Bool(TRUE)))
         ELSE LET o == Body(p, arr, AfterHeader(k), At(arr, k), At(arr, k + 1), dec)
              IN  IF o.thrown THEN ReferenceError
                  ELSE IF o.brk THEN Obj(o.decoded)
                  ELSE DecoderLoop(p, arr, o.i, o.decoded)
    ELSE Obj(dec)

Decoder(p, arr, prt) ==
    IF PortAccepted(p, prt) THEN DecoderLoop(p, arr, 0, InitialDecoded(p)) ELSE Null

(***************************************************************************)
(* The Node-RED function bodies (AM100-node-red.js 331-369 and 540-578):   *)
(* pick the raw payload out of msg, call the embedded Decoder with         *)
(* msg.port, add the derived fields, and put the result and the sensor     *)
(* metadata into msg.  msg is a function from its property names to their  *)
(* values.                                                                 *)
(***************************************************************************)
NodeRedProfiles == {"AM100_NR", "EM500_SMT_NR"}

\* the Decoder text each function body calls
DecoderOf(p) == IF p = "AM100_NR" THEN "AM100" ELSE "EM500_SMT"

\* dewpoint and CalculateHeatIndexCelsius are floating-point formulas with
\* Math.log and Math.sqrt: their values are kept as the call and its arguments
Call2(fn, a, b) == [t |-> "call", fn |-> fn, args |-> <<a, b>>]

\* result.tDewC = ...; result.tHeatIndexC = ... (the ambience body only)
Derived(p, obj) ==
    IF Has(obj, "temperature") /\ Has(obj, "humidity")
    THEN LET dew == Put(obj, "tDewC", Call2("dewpoint", obj["temperature"], obj["humidity"]))
         IN  IF p = "AM100_NR"
             THEN Put(dew, "tHeatIndexC",
                      Call2("CalculateHeatIndexCelsius", obj["temperature"],
                            obj["humidity"]))
             ELSE dew
    ELSE obj

\* msg.local
Local(p) ==
    IF p = "AM100_NR"
    THEN [nodeType |-> "Ursalink AM102", platformType |-> "Urasalink AM100",
          radioType |-> "Ursalink", applicationName |-> "Ambience Monitor"]
    ELSE [nodeType |-> "Ursalink EM500-SMT", platformType |-> "Urasalink EM500",
          radioType |-> "Ursalink", applicationName |-> "Soil Monitor"]

\* the input messages: the bytes in payload, or in payload_raw beside another
\* payload; with no port, with port 85, or with port 84
Messages(p) ==
    LET Raw == {[payload |-> arr] : arr \in Payloads(DecoderOf(p))}
               \cup {[payload |-> <<>>, payload_raw |-> arr] :
                        arr \in Payloads(DecoderOf(p))}
    IN  Raw \cup {[f \in DOMAIN m \cup {"port"} |-> IF f = "port" THEN prt ELSE m[f]] :
                     m \in Raw, prt \in Ports \ {Undefined}}

InitNodeRed ==
    \E p \in NodeRedProfiles : \E m \in Messages(p) :
        /\ profile = p
        /\ msg = m
        /\ pc = "nr_entry"
        /\ bytes = <<>>
        /\ port = Undefined
        /\ i = 0
        /\ channel_id = Undefined
        /\ channel_type = Undefined
        /\ decoded = EmptyObject
        /\ result = Undefined
        /\ pastEnd = FALSE
        /\ iterations = 0

\* b = msg.payload_raw if present, else msg.payload; Decoder(b, msg.port)
NodeRedEntry ==
    /\ pc = "nr_entry"
    /\ bytes' = IF Has(msg, "payload_raw") THEN msg["payload_raw"] ELSE msg["payload"]
    /\ port' = IF Has(msg, "port") THEN msg["port"] ELSE Undefined
    /\ pc' = "call"
    /\ UNCHANGED <<profile, i, channel_id, channel_type, decoded, result, pastEnd,
                   iterations, msg>>

\* "temperature" in result throws a TypeError when result is null; otherwise
\* the derived fields, msg.payload = result, msg.local = {...}, return msg
NodeRedFinish ==
    /\ pc = "done"
    /\ profile \in NodeRedProfiles
    /\ IF result.t = "object"
       THEN /\ result' = Obj(Derived(profile, result.o))
            /\ msg' = Put(Put(msg, "payload", result'), "local", Local(profile))
            /\ pc' = "nr_done"
       ELSE /\ pc' = "nr_thrown"
            /\ UNCHANGED <<result, msg>>
    /\ UNCHANGED <<profile, bytes, port, i, channel_id, channel_type, decoded, pastEnd,
                   iterations>>

NextNodeRed == Next \/ NodeRedEntry \/ NodeRedFinish

SpecNodeRed == InitNodeRed /\ [][NextNodeRed]_vars

(***************************************************************************)
(* Inputs over the whole 16-bit range: one temperature record on the       *)
(* ambience and soil profiles, one enabled-sensors record on the ambience  *)
(* profile, on port 85 (the port test is exercised by Init).               *)
(***************************************************************************)
Int16 == -32768..32767

Byte == 0..255

\* two's-complement 16-bit little-endian, low byte first
Pack16LE(r) ==
    LET u == IF r < 0 THEN r + 65536 ELSE r
    IN  <<u % 256, u \div 256>>

InitTemperature ==
    \E p \in {"AM100", "EM500_SMT"} : \E r \in Int16 :
        Start(p, <<3, 103>> \o Pack16LE(r), Num(85))

SpecTemperature == InitTemperature /\ [][Next]_vars

InitEnabledSensors ==
    \E b0 \in Byte : \E b1 \in Byte :
        Start("AM100", <<255, 24, b0, b1>>, Num(85))

SpecEnabledSensors == InitEnabledSensors /\ [][Next]_vars

(***************************************************************************)
(* Vocabulary of the properties                                            *)
(***************************************************************************)
Returned == pc = "done" /\ result.t = "object"

\* the header the loop read last is a full header that no branch of the
\* profile's Decoder matches
LastHeaderUnknown ==
    /\ IsNum(channel_id)
    /\ IsNum(channel_type)
    /\ <<channel_id.n, channel_type.n>> \notin KnownHeaders(profile)

LastHeader == <<channel_id.n, channel_type.n>>

\* the header the loop read last is a full header that a branch of the
\* profile's Decoder matches
LastHeaderKnown ==
    /\ IsNum(channel_id)
    /\ IsNum(channel_type)
    /\ LastHeader \in KnownHeaders(profile)

\* equal as numbers, whatever the denominators
SameNumber(a, b) == IsNum(a) /\ IsNum(b) /\ a.n * b.d = b.n * a.d

\* the flag that decoded.Error = false initialises
ErrorFlagSet(obj) == Has(obj, "Error") /\ obj["Error"] = Bool(TRUE)

\* the properties that hold data: everything but the two spellings of the flag
DataFields(obj) == (DOMAIN obj) \ {"Error", "error"}

(***************************************************************************)
(* C1: when the (channel-id, channel-type) pair read at the cursor is in   *)
(* no branch of the profile, the returned result has the error flag (the   *)
(* one initialised to false) set to true, and the cursor stays right after *)
(* the header; bytes [0x02,0x99] give the flag and no data field.          *)
(* The decoders do not do this: the final else of AM100.js and             *)
(* EM500-SMT.js sets decoded.error, another property, and the light        *)
(* decoder sets nothing.                                                   *)
(***************************************************************************)
C1_UnknownChannelSetsErrorFlag ==
    [][(pc = "body" /\ LastHeaderUnknown) =>
          /\ pc' = "return"
          /\ i' = i
          /\ decoded' = Put(decoded, "Error", Bool(TRUE))]_vars

(***************************************************************************)
(* C2: whenever a channel header is expected and fewer than 2 bytes remain *)
(* (cursor > length-2), the decoder sets the error flag, stops, reads no   *)
(* byte beyond the end of the input and adds no field; a 1-byte input thus *)
(* returns the error flag alone.                                           *)
(* Only EM500-SMT.js has the test.  AM100.js and the light decoder read    *)
(* the missing type byte as undefined and fall into the else branch.       *)
(***************************************************************************)
C2_TruncatedHeaderSetsErrorFlag ==
    [][(pc = "loop" /\ i < Len(bytes) /\ i > Len(bytes) - 2) =>
          /\ pc' = "return"
          /\ decoded' = Put(decoded, "Error", Bool(TRUE))
          /\ ~pastEnd']_vars

(***************************************************************************)
(* C3: when a recognized header is followed by fewer data bytes than the   *)
(* channel's declared width, the decoder sets the error flag and stops,    *)
(* and stores no field computed from bytes past the end of the input.      *)
(* No decoder tests the remaining length before reading the data.          *)
(***************************************************************************)
C3_TruncatedDataSetsErrorFlag ==
    [][(pc = "body" /\ LastHeaderKnown /\ i + DeclaredWidth(LastHeader) > Len(bytes)) =>
          /\ pc' = "return"
          /\ decoded' = Put(decoded, "Error", Bool(TRUE))
          /\ pastEnd' = pastEnd]_vars

(***************************************************************************)
(* C4: no input makes a decoder throw: every call with an accepted port    *)
(* completes and returns a result.                                         *)
(* EM500-SMT.js calls readVersion and readHexBytes and defines neither.    *)
(***************************************************************************)
C4_DecoderNeverThrows == pc # "thrown"

\* the property each matching branch assigns (AM100.js 46-122,
\* EM500-SMT.js 48-98, light decoder 18-23)
FieldName(p, h) ==
    IF h = <<1, 117>> THEN "battery"
    ELSE IF h = <<3, 103>> THEN "temperature"
    ELSE IF h = <<3, 148>> THEN "light"
    ELSE IF h = <<4, 104>> THEN "humidity"
    ELSE IF h = <<5, 106>> THEN "activity"
    ELSE IF h = <<5, 127>> THEN "conductivity"
    ELSE IF h = <<6, 101>> THEN "illumination"
    ELSE IF h = <<7, 125>> THEN "co2"
    ELSE IF h = <<8, 125>> THEN "tvoc"
    ELSE IF h = <<9, 115>> THEN "pressure"
    ELSE IF h = <<255, 11>> THEN "restart"
    ELSE IF h = <<255, 12>> THEN "shutdown"
    ELSE IF h = <<255, 1>> THEN "FormatVersion"
    ELSE IF h = <<255, 9>> THEN "HardwareVersion"
    ELSE IF h = <<255, 10>> THEN "SoftwareVersion"
    ELSE IF h = <<255, 15>> THEN "Class"
    ELSE IF h = <<255, 24>> THEN "EnabledSensors"
    ELSE "SerialNumber"

\* neither spelling of the flag is true
NoErrorFlag(obj) ==
    /\ ~ErrorFlagSet(obj)
    /\ ~(Has(obj, "error") /\ obj["error"] = Bool(TRUE))

(***************************************************************************)
(* C5: for every channel a profile handles, a first record made of the     *)
(* header and exactly the declared number of data bytes is decoded with    *)
(* the cursor moved to the end of the record, no error flag, the channel's *)
(* field present, and the loop going on to the next record.                *)
(* EM500-SMT.js breaks its 0xFF branch into three if-chains (lines 69, 83, *)
(* 88): FormatVersion and restart fall into the last chain's else and set  *)
(* Error; the version and serial-number channels throw.                    *)
(***************************************************************************)
C5_ExactRecordIsDecoded ==
    [][(pc = "body" /\ i = 2 /\ LastHeaderKnown
           /\ i + DeclaredWidth(LastHeader) <= Len(bytes)) =>
          /\ pc' = "loop"
          /\ i' = i + DeclaredWidth(LastHeader)
          /\ Has(decoded', FieldName(profile, LastHeader))
          /\ NoErrorFlag(decoded')]_vars

(***************************************************************************)
(* C6: a port that is supplied and is not 85 makes Decoder return null     *)
(* without reading a byte or building a result.                            *)
(* The light decoder takes the port parameter and never tests it.          *)
(***************************************************************************)
C6_PortMismatchReturnsNull ==
    (pc # "call" /\ ~StrictEq(port, Undefined) /\ ~StrictEq(port, Num(85))) =>
        /\ pc = "done"
        /\ result = Null
        /\ decoded = EmptyObject
        /\ i = 0
        /\ ~pastEnd

(***************************************************************************)
(* C7: the battery channel (0x01, 0x75) with data byte b yields            *)
(* battery = min(b, 100) and no error flag, in every profile.              *)
(* Only AM100.js clamps; EM500-SMT.js and the light decoder store b.       *)
(***************************************************************************)
C7_BatteryIsClamped ==
    (Returned /\ Len(bytes) = 3 /\ bytes[1] = 1 /\ bytes[2] = 117) =>
        /\ Has(result.o, "battery")
        /\ result.o["battery"] = Num(IF bytes[3] > 100 THEN 100 ELSE bytes[3])
        /\ NoErrorFlag(result.o)

\* bcd(v) as the claim states it
ClaimedBcd(v) == IF v % 16 <= 9 /\ v < 160 THEN 10 * (v \div 16) + (v % 16) ELSE 0

(***************************************************************************)
(* C9: on the ambience and soil profiles the hardware-version (0xFF,0x09)  *)
(* and software-version (0xFF,0x0A) channels with data bytes (h, l) decode *)
(* to bcd(h) + bcd(l)/100, bcd of an invalid byte being 0, without setting *)
(* the error flag or stopping the loop.                                    *)
(* On the soil profile the call of readVersion throws (C4).                *)
(***************************************************************************)
C9_VersionIsBcd ==
    [][(pc = "body" /\ profile \in {"AM100", "EM500_SMT"}
           /\ IsNum(channel_id) /\ IsNum(channel_type)
           /\ LastHeader \in {<<255, 9>>, <<255, 10>>}
           /\ i + 2 <= Len(bytes)) =>
          /\ pc' = "loop"
          /\ i' = i + 2
          /\ Has(decoded', FieldName(profile, LastHeader))
          /\ SameNumber(decoded'[FieldName(profile, LastHeader)],
                        Rat(100 * ClaimedBcd(bytes[i + 1]) + ClaimedBcd(bytes[i + 2]), 100))
          /\ NoErrorFlag(decoded')]_vars

\* the signed value r with 10 * t = r, when t is a number and 10 * t an integer
TimesTen(t) == (10 * t.n) \div t.d

(***************************************************************************)
(* C8: round trip of the temperature channel on the ambience and soil      *)
(* profiles: for every r in -32768..32767, the payload [0x03,0x67] followed*)
(* by r packed as two's-complement 16-bit little-endian decodes to a       *)
(* temperature t with 10 * t = r, with no error flag; [0x03,0x67,0xE6,0x00]*)
(* gives 23.  Stated on the result: packing 10 * t gives back the two data *)
(* bytes, and packing is one-to-one on -32768..32767.                      *)
(***************************************************************************)
C8_TemperatureRoundTrip ==
    (Returned /\ profile \in {"AM100", "EM500_SMT"} /\ Len(bytes) = 4
        /\ bytes[1] = 3 /\ bytes[2] = 103) =>
        /\ Has(result.o, "temperature")
        /\ LET t == result.o["temperature"]
           IN  /\ IsNum(t)
               /\ (10 * t.n) % t.d = 0
               /\ TimesTen(t) \in Int16
               /\ Pack16LE(TimesTen(t)) = <<bytes[3], bytes[4]>>
               /\ (bytes = <<3, 103, 230, 0>> => SameNumber(t, Num(23)))
        /\ NoErrorFlag(result.o)
        /\ i = 4

\* a negative temperature has been decoded and returned
C8_Witness ==
    /\ Returned
    /\ bytes = <<3, 103>> \o Pack16LE(-400)
    /\ Has(result.o, "temperature")
    /\ SameNumber(result.o["temperature"], Num(-40))

Bit(v, k) == (v \div (2 ^ k)) % 2 = 1

(***************************************************************************)
(* C10: on the ambience profile the enabled-sensors channel (0xFF, 0x18)   *)
(* consumes exactly 2 data bytes (b0, b1) and sets EnabledSensors to       *)
(* exactly seven booleans, bits 0..6 of v = 256*b0 + b1 in the order       *)
(* temperature, humidity, activity, illumination, co2, tvoc, pressure;     *)
(* bit 7 and all of b0 change nothing, and the error flag stays false.     *)
(***************************************************************************)
C10_EnabledSensorsBits ==
    (Returned /\ profile = "AM100" /\ Len(bytes) = 4
        /\ bytes[1] = 255 /\ bytes[2] = 24) =>
        LET v == 256 * bytes[3] + bytes[4]
        IN  /\ i = 4
            /\ DOMAIN result.o = {"Error", "EnabledSensors"}
            /\ result.o["Error"] = Bool(FALSE)
            /\ result.o["EnabledSensors"] =
                  Obj([temperature  |-> Bit(v, 0),
                       humidity     |-> Bit(v, 1),
                       activity     |-> Bit(v, 2),
                       illumination |-> Bit(v, 3),
                       co2          |-> Bit(v, 4),
                       tvoc         |-> Bit(v, 5),
                       pressure     |-> Bit(v, 6)])
            /\ result.o["EnabledSensors"] =
                  Obj([temperature  |-> Bit(bytes[4], 0),
                       humidity     |-> Bit(bytes[4], 1),
                       activity     |-> Bit(bytes[4], 2),
                       illumination |-> Bit(bytes[4], 3),
                       co2          |-> Bit(bytes[4], 4),
                       tvoc         |-> Bit(bytes[4], 5),
                       pressure     |-> Bit(bytes[4], 6)])

\* b0 and bit 7 of b1 all ones, bits 0..6 of b1 = 1000001: only temperature
\* and pressure come out true
C10_Witness ==
    /\ Returned
    /\ bytes = <<255, 24, 255, 193>>
    /\ result.o["EnabledSensors"].o.temperature
    /\ result.o["EnabledSensors"].o.pressure
    /\ ~result.o["EnabledSensors"].o.humidity
    /\ ~result.o["EnabledSensors"].o.tvoc

(***************************************************************************)
(* C11: cursor invariant of the decode loop in every profile: in every     *)
(* reachable state of a call 0 <= cursor <= length(bytes), and between two *)
(* consecutive loop heads the cursor advances by exactly 2 (the header)    *)
(* plus the declared data width of the channel just decoded.               *)
(* No decoder tests the remaining length before advancing (C2, C3): on a   *)
(* truncated record the cursor ends beyond the end of the input.           *)
(***************************************************************************)
C11_CursorInvariant ==
    /\ [](0 <= i /\ i <= Len(bytes))
    /\ [][(pc = "loop" /\ pc' = "body") => i' = i + 2]_vars
    /\ [][(pc = "body" /\ pc' = "loop") =>
             (LastHeaderKnown /\ i' = i + DeclaredWidth(LastHeader))]_vars

\* the call is over: Decoder has returned, or an exception has left it
Terminated == pc \in {"done", "thrown"}

(***************************************************************************)
(* C13: every decode call terminates on every profile: a pass of the loop  *)
(* either stops the loop or moves the cursor forward by at least 2 (the    *)
(* header read moves it by 2 and no branch moves it back), so the loop     *)
(* makes at most ceil(length(bytes)/2) passes, and the call ends: a call   *)
(* that is not over stands at one of the four steps (each guarded by its   *)
(* position only), and every step lowers Rank, which is never negative.    *)
(* An exception thrown out of the loop (C4) also ends the call.            *)
(***************************************************************************)
MaxPasses == (Len(bytes) + 1) \div 2

\* a measure of what is left of the call
Rank ==
    IF Terminated THEN 0
    ELSE IF pc = "return" THEN 1
    ELSE IF pc = "loop" THEN 4 * (MaxPasses - iterations) + 3
    ELSE IF pc = "body" THEN 4 * (MaxPasses - iterations) + 4
    ELSE 4 * MaxPasses + 8

C13_DecodeTerminates ==
    /\ [](iterations <= MaxPasses)
    /\ [][(pc = "loop" /\ pc' = "body") => i' >= i + 2]_vars
    /\ [][(pc = "body" /\ pc' = "loop") => i' >= i]_vars
    /\ [](Terminated \/ pc \in {"call", "loop", "body", "return"})
    /\ [](Rank >= 0)
    /\ [][Rank' < Rank]_vars

\* the soil decoder has returned after two passes over 4 bytes, the bound
C13_Witness ==
    /\ Returned
    /\ profile = "EM500_SMT"
    /\ Len(bytes) = 4
    /\ iterations = 2

(***************************************************************************)
(* C12: a port mismatch never aborts the caller: when msg.port is supplied *)
(* and is not 85, each Node-RED function body (ambience and soil) runs to  *)
(* completion and returns msg with msg.payload the Decoder's null result   *)
(* and msg.local the sensor metadata.                                      *)
(* Both bodies test "temperature" in result with no test for null, which   *)
(* throws a TypeError out of the function body.                            *)
(***************************************************************************)
C12_PortMismatchReturnsMsg ==
    [][(/\ pc = "done"
        /\ profile \in NodeRedProfiles
        /\ Has(msg, "port")
        /\ ~StrictEq(msg["port"], Num(85)))
       => (/\ pc' = "nr_done"
           /\ msg'["payload"] = Null
           /\ msg'["local"] = Local(profile))]_vars

(***************************************************************************)
(* C14: on the light profile the light channel (0x03, 0x94) consumes       *)
(* exactly 4 data bytes and the light value is determined by all 4 of      *)
(* them: payloads [0x03, 0x94, d0, d1, d2, d3] that differ in any one data *)
(* byte decode to different light values, and the value is never negative. *)
(* The decoder reads the 4-byte slice with readInt16LE: a signed 16-bit    *)
(* value of d0 and d1 alone.                                               *)
(***************************************************************************)
C14_LightUsesFourBytes ==
    (Returned /\ profile = "EM500_LGT" /\ Len(bytes) = 6
        /\ bytes[1] = 3 /\ bytes[2] = 148)
    => /\ i = 6
       /\ Has(result.o, "light")
       /\ IsNum(result.o["light"])
       /\ result.o["light"].n >= 0
       /\ \A k \in 3..6 : \A v \in Byte \ {bytes[k]} :
              Decoder(profile, [bytes EXCEPT ![k] = v], port).o["light"]
                  # result.o["light"]

\* the four fields the embedded copy reads with readUInt16LE
UnsignedInCopy == {"activity", "illumination", "tvoc", "pressure"}

\* the value v of the embedded copy and the value w of AM100.js come from the
\* same raw 16 bits at or above 0x8000: w is v less 0x10000 (tenths for pressure)
SignedTwin(v, w) ==
    /\ IsNum(v)
    /\ IsNum(w)
    /\ v.d = w.d
    /\ v.n >= 32768
    /\ w.n = v.n - 65536

(***************************************************************************)
(* C15: the ambience Decoder of AM100.js and its copy embedded in          *)
(* AM100-node-red.js are equivalent on every input (bytes, port) whose raw *)
(* activity, illumination, tvoc and pressure values are below 0x8000: both *)
(* return null, or results with the same fields, values and error flags;   *)
(* on any other input they differ only in the values of those four fields  *)
(* (signed in AM100.js, unsigned in the copy).  Here result is what the    *)
(* embedded copy returned to the Node-RED body, compared with AM100.js on  *)
(* the same arguments.                                                     *)
(***************************************************************************)
C15_EmbeddedCopyEquivalent ==
    (pc = "done" /\ profile = "AM100_NR")
    => LET a == Decoder("AM100", bytes, port)
       IN  /\ (a = Null) = (result = Null)
           /\ (a.t = "object") = (result.t = "object")
           /\ a.t = "object" =>
                /\ DOMAIN a.o = DOMAIN result.o
                /\ \A f \in DOMAIN a.o \ UnsignedInCopy : a.o[f] = result.o[f]
                /\ \A f \in DOMAIN a.o \cap UnsignedInCopy :
                       \/ a.o[f] = result.o[f]
                       \/ SignedTwin(result.o[f], a.o[f])
                /\ (\A f \in DOMAIN a.o \cap UnsignedInCopy :
                        IsNum(result.o[f]) => result.o[f].n < 32768)
                   => a = result

\* pressure raw 0xBBAA: 4804.2 from the copy, -1749.4 from AM100.js
C15_Witness ==
    /\ pc = "done"
    /\ profile = "AM100_NR"
    /\ bytes = <<9, 115, 170, 187>>
    /\ result.t = "object"
    /\ result.o["pressure"] = Rat(48042, 10)
    /\ Decoder("AM100", bytes, port).o["pressure"] = Rat(-17494, 10)

====
